---- MODULE Spec2Model ----
(***************************************************************************)
(* Order-book synchronisation and cross-exchange aggregation of bookAggr.  *)
(*                                                                         *)
(* One connector (Binance, Backpack, Kucoin or OKX, chosen in Init) is     *)
(* followed through its bootstrap and its live updates against an exchange *)
(* whose true book moves one level at a time; the page's aggregation tick  *)
(* reads the connectors' published views.  SpecPage adds the tick to the   *)
(* connector, SpecReplay starts a Binance or Backpack bootstrap with its   *)
(* buffer filled, SpecAgg runs the tick over two published views and       *)
(* SpecMerge over three views whose sums need rounding.  SpecLife adds the *)
(* transport's drops and reconnects, close() and changeTickers, SpecFetch  *)
(* malformed snapshot bodies, and SpecFair a fair event loop.              *)
(* JavaScript runs every callback to completion, so one action is one      *)
(* callback (or one continuation of an async function between awaits).     *)
(***************************************************************************)
EXTENDS Integers, Sequences, FiniteSets, TLC

VARIABLES
    ex,                  \* the connector that is followed
    xchg,                \* exchange: the level changes made so far, one per marker
    arrived,             \* exchange: marker up to which push messages were sent
    wsState,             \* transport of the connector
    isLoading,           \* page.tsx: isLoading
    orderBook,           \* connector: orderBooks.get(ticker)
    depthBuffer,         \* connector: depthUpdateBuffers.get(ticker)
    isInitializing,      \* connector: isInitializing.get(ticker)
    runs,                \* connector: the initializeOrderBook calls in flight
    prices,              \* exchange name -> prices.get(selectedTicker)
    orderbookDepth,      \* page.tsx: orderbookDepth
    aggregatedOrderBook, \* page.tsx: aggregatedOrderBook
    gapOpen,             \* history: a gap was detected and no snapshot installed since
    ev,                  \* history: the last callback that ran, its snapshot marker and run
    isClosing,           \* connector: isClosing
    tracked,             \* connector: trackingOrderBook.has(ticker)
    starts,              \* page.tsx: the start() promises, this connector's and the others'
    mounted,             \* page.tsx: the Home component is mounted
    superseded,          \* Kucoin: the connection attempt that a later initializeWebSocket replaced
    pingInterval         \* Kucoin: pingInterval (handle, 0 for null) and the interval timers running

vars == <<ex, xchg, arrived, wsState, isLoading, orderBook, depthBuffer,
          isInitializing, runs, prices, orderbookDepth, aggregatedOrderBook, gapOpen, ev,
          isClosing, tracked, starts, mounted, superseded, pingInterval>>

\* what the callbacks of a connected, subscribed connector leave alone
life == <<isClosing, tracked, starts, mounted, superseded, pingInterval>>

(***************************************************************************)
(* Bounds                                                                  *)
(***************************************************************************)
MaxSteps == 3
MaxRuns == 2
LifeSteps == 1

(***************************************************************************)
(* Program constants                                                       *)
(***************************************************************************)
OrderBookDepth == 20
DefaultDepth == 15
DepthOptions == {5, 10, 15, 25, 50}

Exchanges == {"binance", "bybit", "okx", "kucoin", "backpack"}
Buffering == {"binance", "backpack"}
Followed == {"binance", "backpack", "kucoin", "okx"}

\* the levels the exchange moves: its best bid and its best ask; size 0 removes
\* the level
Sizes == {0, 1}
Changes == [side : {"bid"}, price : {100}, size : Sizes]
               \cup [side : {"ask"}, price : {101}, size : Sizes]

(***************************************************************************)
(* Price ladders: Map<number, number>                                      *)
(***************************************************************************)
EmptyLadder == [p \in {} |-> 0]

LadderSet(l, p, q) == [x \in (DOMAIN l) \cup {p} |-> IF x = p THEN q ELSE l[x]]

LadderDelete(l, p) == [x \in (DOMAIN l) \ {p} |-> l[x]]

SetMax(S) == CHOOSE x \in S : \A y \in S : y <= x

SetMin(S) == CHOOSE x \in S : \A y \in S : x <= y

RECURSIVE SortDesc(_)
SortDesc(S) == IF S = {} THEN <<>> ELSE <<SetMax(S)>> \o SortDesc(S \ {SetMax(S)})

RECURSIVE SortAsc(_)
SortAsc(S) == IF S = {} THEN <<>> ELSE <<SetMin(S)>> \o SortAsc(S \ {SetMin(S)})

\* as Slice, but the element after the n-th is kept too
SliceThrough(s, n) == SubSeq(s, 1, IF Len(s) < n + 1 THEN Len(s) ELSE n + 1)

\* .slice(0, n)
Slice(s, n) == SubSeq(s, 1, IF Len(s) < n THEN Len(s) ELSE n)

\* Array.from(map.entries()).map(([price, size]) => ({price, size})).sort(..)
SortedLevels(l, isBid) ==
    LET order == IF isBid THEN SortDesc(DOMAIN l) ELSE SortAsc(DOMAIN l)
    IN  [i \in 1..Len(order) |-> [price |-> order[i], size |-> l[order[i]]]]

TopLevels(l, isBid, depth) == Slice(SortedLevels(l, isBid), depth)

(***************************************************************************)
(* The exchange: its true book at every marker, its push messages and its  *)
(* snapshots                                                               *)
(***************************************************************************)
InitBook == [bids |-> (99 :> 1) @@ (100 :> 1), asks |-> EmptyLadder]

ChangeLadder(l, c) == IF c.size = 0 THEN LadderDelete(l, c.price) ELSE LadderSet(l, c.price, c.size)

RECURSIVE TrueBook(_)
TrueBook(m) ==
    IF m = 0 THEN InitBook
    ELSE LET prev == TrueBook(m - 1)
             c == xchg[m]
         IN  IF c.side = "bid"
             THEN [prev EXCEPT !.bids = ChangeLadder(@, c)]
             ELSE [prev EXCEPT !.asks = ChangeLadder(@, c)]

SizeAt(l, p) == IF p \in DOMAIN l THEN l[p] ELSE 0

\* the levels of one side changed by markers U..u, each with its size as of u
Changed(side, U, u) ==
    LET ps == {xchg[i].price : i \in {j \in U..u : xchg[j].side = side}}
        l == IF side = "bid" THEN TrueBook(u).bids ELSE TrueBook(u).asks
        order == SortAsc(ps)
    IN  [i \in 1..Len(order) |-> <<order[i], SizeAt(l, order[i])>>]

\* the incremental update covering markers U..u
DepthUpdate(U, u) == [U |-> U, u |-> u, b |-> Changed("bid", U, u), a |-> Changed("ask", U, u)]

LadderLevels(l) == LET order == SortAsc(DOMAIN l) IN [i \in 1..Len(order) |-> <<order[i], l[order[i]]>>]

\* the REST snapshot of the book as of marker m
Snapshot(m) == [lastUpdateId |-> m, bids |-> LadderLevels(TrueBook(m).bids),
                asks |-> LadderLevels(TrueBook(m).asks)]

(***************************************************************************)
(* Connector state shared by the operations below                          *)
(***************************************************************************)
NoBook == [absent |-> TRUE]
NoEntry == [absent |-> TRUE]

St == [orderBook |-> orderBook, depthBuffer |-> depthBuffer,
       isInitializing |-> isInitializing, runs |-> runs, pub |-> prices[ex],
       gap |-> gapOpen]

Commit(s) ==
    /\ orderBook' = s.orderBook
    /\ depthBuffer' = s.depthBuffer
    /\ isInitializing' = s.isInitializing
    /\ runs' = s.runs
    /\ prices' = [prices EXCEPT ![ex] = s.pub]
    /\ gapOpen' = s.gap

RemoveAt(s, i) == SubSeq(s, 1, i - 1) \o SubSeq(s, i + 1, Len(s))

\* as ApplyLevels, but a positive quantity is added to the size already there
RECURSIVE ApplyLevelsAdding(_, _)
ApplyLevelsAdding(l, levels) ==
    IF levels = <<>> THEN l
    ELSE LET price == Head(levels)[1]
             quantity == Head(levels)[2]
         IN  ApplyLevelsAdding(IF quantity = 0 THEN LadderDelete(l, price)
                               ELSE LadderSet(l, price, SizeAt(l, price) + quantity),
                               Tail(levels))

\* forEach over the changed levels of one side: quantity 0 deletes, else set
RECURSIVE ApplyLevels(_, _)
ApplyLevels(l, levels) ==
    IF levels = <<>> THEN l
    ELSE LET price == Head(levels)[1]
             quantity == Head(levels)[2]
         IN  ApplyLevels(IF quantity = 0 THEN LadderDelete(l, price)
                         ELSE LadderSet(l, price, quantity), Tail(levels))

\* forEach over the levels of a snapshot: only quantity > 0 is stored
RECURSIVE SnapshotLadder(_, _)
SnapshotLadder(l, levels) ==
    IF levels = <<>> THEN l
    ELSE LET price == Head(levels)[1]
             quantity == Head(levels)[2]
         IN  SnapshotLadder(IF quantity > 0 THEN LadderSet(l, price, quantity) ELSE l,
                            Tail(levels))

SnapshotBook(snapshot) ==
    [lastUpdateId |-> snapshot.lastUpdateId,
     bids |-> SnapshotLadder(EmptyLadder, snapshot.bids),
     asks |-> SnapshotLadder(EmptyLadder, snapshot.asks)]

\* price: undefined
NoPrice == 0

\* currentData.price, currentData being the entry or the default one
CurrentPrice(entry) == IF entry = NoEntry THEN NoPrice ELSE entry.price

\* as updatePricesOrderBook, but the new entry has no price
updatePricesOrderBookDroppingPrice(s) ==
    IF s.orderBook = NoBook THEN s
    ELSE [s EXCEPT !.pub = [price |-> NoPrice,
                            bid |-> TopLevels(s.orderBook.bids, TRUE, OrderBookDepth),
                            ask |-> TopLevels(s.orderBook.asks, FALSE, OrderBookDepth),
                            lastUpdateId |-> s.orderBook.lastUpdateId]]

\* prices.set(parsedTicker, {price: currentData.price, ..,
\* orders: {bid, ask, lastUpdateId}}); the entry is modelled by its price and
\* the fields of its orders
updatePricesOrderBook(s) ==
    IF s.orderBook = NoBook THEN s
    ELSE [s EXCEPT !.pub = [price |-> CurrentPrice(s.pub),
                            bid |-> TopLevels(s.orderBook.bids, TRUE, OrderBookDepth),
                            ask |-> TopLevels(s.orderBook.asks, FALSE, OrderBookDepth),
                            lastUpdateId |-> s.orderBook.lastUpdateId]]

\* as ApplyToBook, but the marker counts the updates applied
ApplyToBookCounting(book, d) ==
    [lastUpdateId |-> book.lastUpdateId + 1, bids |-> ApplyLevels(book.bids, d.b),
     asks |-> ApplyLevels(book.asks, d.a)]

ApplyToBook(book, d) ==
    [lastUpdateId |-> d.u, bids |-> ApplyLevels(book.bids, d.b), asks |-> ApplyLevels(book.asks, d.a)]

(***************************************************************************)
(* Binance                                                                 *)
(***************************************************************************)
Run(pc) == [pc |-> pc, shared |-> FALSE, buffer |-> <<>>, firstEventU |-> 0]

\* depthUpdateBuffers.set(ticker, []) installs a new array: a run that holds
\* the old array keeps its contents but sees no later push
Detach(rs, old) ==
    [i \in 1..Len(rs) |-> IF rs[i].shared THEN [rs[i] EXCEPT !.shared = FALSE, !.buffer = old]
                          ELSE rs[i]]

\* initializeOrderBook up to its first await
BinanceInitializeOrderBook(s) ==
    [s EXCEPT !.isInitializing = TRUE,
              !.depthBuffer = <<>>,
              !.runs = Append(Detach(s.runs, s.depthBuffer), Run("poll"))]

BinanceApplyDepthUpdate(s, d) ==
    IF s.orderBook = NoBook THEN s
    ELSE IF d.u <= s.orderBook.lastUpdateId THEN s
    ELSE IF d.U > s.orderBook.lastUpdateId + 1
         THEN BinanceInitializeOrderBook([s EXCEPT !.isInitializing = TRUE, !.gap = TRUE])
    ELSE updatePricesOrderBook([s EXCEPT !.orderBook = ApplyToBook(@, d)])

BinanceProcessDepthUpdate(s, d) ==
    IF s.isInitializing THEN [s EXCEPT !.depthBuffer = Append(@, d)]
    ELSE BinanceApplyDepthUpdate(s, d)

RECURSIVE BinanceReplay(_, _)
BinanceReplay(s, events) ==
    IF events = <<>> THEN s
    ELSE BinanceReplay(BinanceApplyDepthUpdate(s, Head(events)), Tail(events))

\* as After, but an event that ends at the snapshot's marker is kept
AfterInclusive(buffer, id) == LET Valid(e) == e.u >= id IN SelectSeq(buffer, Valid)

\* buffer.filter(event => event.u > snapshot.lastUpdateId)
After(buffer, id) == LET Valid(e) == e.u > id IN SelectSeq(buffer, Valid)

FirstValid(e, id) == e.U <= id + 1 /\ e.u >= id + 1

\* as BinanceInstall, but the pair is marked initialized without publishing
BinanceInstallWithoutPublishing(s, i, snapshot) ==
    LET buffer == IF s.runs[i].shared THEN s.depthBuffer ELSE s.runs[i].buffer
        s1 == [s EXCEPT !.orderBook = SnapshotBook(snapshot), !.runs = RemoveAt(@, i),
                       !.gap = FALSE]
        validEvents == After(buffer, snapshot.lastUpdateId)
    IN  IF validEvents # <<>> /\ ~FirstValid(validEvents[1], snapshot.lastUpdateId)
        THEN BinanceInitializeOrderBook(s1)
        ELSE LET s2 == BinanceReplay(s1, validEvents)
             IN  [s2 EXCEPT !.isInitializing = FALSE,
                            !.depthBuffer = <<>>,
                            !.runs = Detach(@, s2.depthBuffer)]

\* initializeOrderBook of run i from the snapshot it settled on to its end
BinanceInstall(s, i, snapshot) ==
    LET buffer == IF s.runs[i].shared THEN s.depthBuffer ELSE s.runs[i].buffer
        s1 == [s EXCEPT !.orderBook = SnapshotBook(snapshot), !.runs = RemoveAt(@, i),
                       !.gap = FALSE]
        validEvents == After(buffer, snapshot.lastUpdateId)
    IN  IF validEvents # <<>> /\ ~FirstValid(validEvents[1], snapshot.lastUpdateId)
        THEN BinanceInitializeOrderBook(s1)
        ELSE LET s2 == updatePricesOrderBook(BinanceReplay(s1, validEvents))
             IN  [s2 EXCEPT !.isInitializing = FALSE,
                            !.depthBuffer = <<>>,
                            !.runs = Detach(@, s2.depthBuffer)]

\* the first snapshot of run i arrives: a second one is fetched when it is
\* older than the first buffered event
BinanceSnapshot1(s, i, snapshot) ==
    IF snapshot.lastUpdateId < s.runs[i].firstEventU
    THEN [s EXCEPT !.runs[i].pc = "fetch2"]
    ELSE BinanceInstall(s, i, snapshot)

\* the poll of run i finds a buffered update: buffer and firstEventU are read
\* and the snapshot is requested
BinancePollResolve(s, i) ==
    [s EXCEPT !.runs[i] = [pc |-> "fetch1", shared |-> TRUE, buffer |-> <<>>,
                           firstEventU |-> s.depthBuffer[1].U]]

(***************************************************************************)
(* Backpack                                                                *)
(***************************************************************************)
BackpackInitializeOrderBook(s) ==
    [s EXCEPT !.isInitializing = TRUE,
              !.depthBuffer = <<>>,
              !.runs = Append(@, Run("poll"))]

\* as BackpackApplyDepthUpdate, but the book is published before lastUpdateId
\* is set
BackpackApplyDepthUpdatePublishingFirst(s, d) ==
    IF s.orderBook = NoBook THEN s
    ELSE IF d.u <= s.orderBook.lastUpdateId THEN s
    ELSE LET applied == ApplyToBook(s.orderBook, d)
             s1 == updatePricesOrderBook(
                       [s EXCEPT !.orderBook = [applied EXCEPT !.lastUpdateId =
                                                                   s.orderBook.lastUpdateId]])
         IN  [s1 EXCEPT !.orderBook = applied]

BackpackApplyDepthUpdate(s, d) ==
    IF s.orderBook = NoBook THEN s
    ELSE IF d.u <= s.orderBook.lastUpdateId THEN s
    ELSE updatePricesOrderBook([s EXCEPT !.orderBook = ApplyToBook(@, d)])

BackpackProcessDepthUpdate(s, d) ==
    IF s.isInitializing THEN [s EXCEPT !.depthBuffer = Append(@, d)]
    ELSE BackpackApplyDepthUpdate(s, d)

RECURSIVE BackpackReplay(_, _)
BackpackReplay(s, events) ==
    IF events = <<>> THEN s
    ELSE BackpackReplay(BackpackApplyDepthUpdate(s, Head(events)), Tail(events))

\* initializeOrderBook of run i from its snapshot to its end; the buffer is
\* read from depthUpdateBuffers after the fetch
BackpackInstall(s, i, snapshot) ==
    LET s1 == [s EXCEPT !.orderBook = SnapshotBook(snapshot), !.runs = RemoveAt(@, i),
                       !.gap = FALSE]
        validEvents == After(s.depthBuffer, snapshot.lastUpdateId)
        s2 == updatePricesOrderBook(BackpackReplay(s1, validEvents))
    IN  [s2 EXCEPT !.isInitializing = FALSE, !.depthBuffer = <<>>]

BackpackPollResolve(s, i) == [s EXCEPT !.runs[i].pc = "fetch1"]

(***************************************************************************)
(* Kucoin and OKX: no buffer, no marker check                              *)
(***************************************************************************)
\* as KucoinInitializeOrderBook, but an entry without levels is published at once
KucoinInitializeOrderBookPublishing(s) ==
    [s EXCEPT !.isInitializing = TRUE, !.runs = Append(@, Run("fetch1")),
              !.pub = [price |-> NoPrice, bid |-> <<>>, ask |-> <<>>, lastUpdateId |-> 0]]

KucoinInitializeOrderBook(s) ==
    [s EXCEPT !.isInitializing = TRUE, !.runs = Append(@, Run("fetch1"))]

\* sequenceStart, sequenceEnd and changes are the update's U, u, b and a
KucoinProcessOrderBookUpdate(s, d) ==
    IF s.isInitializing THEN s
    ELSE IF s.orderBook = NoBook THEN s
    ELSE updatePricesOrderBook([s EXCEPT !.orderBook = ApplyToBook(@, d)])

KucoinInstall(s, i, snapshot) ==
    LET s1 == updatePricesOrderBook([s EXCEPT !.orderBook = SnapshotBook(snapshot),
                                              !.runs = RemoveAt(@, i), !.gap = FALSE])
    IN  [s1 EXCEPT !.isInitializing = FALSE]

OkxInitializeOrderBook(s) ==
    [s EXCEPT !.isInitializing = TRUE, !.runs = Append(@, Run("fetch1"))]

\* data[0].ts is the update's u
OkxProcessOrderBookUpdate(s, d) ==
    IF s.isInitializing THEN s
    ELSE IF s.orderBook = NoBook THEN s
    ELSE updatePricesOrderBook([s EXCEPT !.orderBook = ApplyToBook(@, d)])

OkxInstall(s, i, snapshot) ==
    LET s1 == updatePricesOrderBook([s EXCEPT !.orderBook = SnapshotBook(snapshot),
                                              !.runs = RemoveAt(@, i), !.gap = FALSE])
    IN  [s1 EXCEPT !.isInitializing = FALSE]

(***************************************************************************)
(* Bybit and Kraken: the push stream itself carries the snapshot           *)
(***************************************************************************)
KrakenDepth == 100

\* data.data.u, b and a of the snapshot message are the marker and the levels
BybitProcessOrderBookSnapshot(s, snapshot) ==
    LET s1 == updatePricesOrderBook([s EXCEPT !.orderBook = SnapshotBook(snapshot)])
    IN  [s1 EXCEPT !.isInitializing = FALSE]

BybitProcessOrderBookUpdate(s, d) ==
    IF s.isInitializing THEN s
    ELSE IF s.orderBook = NoBook THEN s
    ELSE updatePricesOrderBook([s EXCEPT !.orderBook = ApplyToBook(@, d)])

\* Kraken keeps no marker and no isInitializing flag: subscribing stores an
\* empty book unless one is there
KrakenInitializeOrderBook(s) ==
    IF s.orderBook = NoBook
    THEN [s EXCEPT !.orderBook = [bids |-> EmptyLadder, asks |-> EmptyLadder]]
    ELSE s

KrakenUpdatePricesOrderBook(s) ==
    IF s.orderBook = NoBook THEN s
    ELSE [s EXCEPT !.pub = [price |-> CurrentPrice(s.pub),
                            bid |-> TopLevels(s.orderBook.bids, TRUE, KrakenDepth),
                            ask |-> TopLevels(s.orderBook.asks, FALSE, KrakenDepth)]]

\* forEach over the levels of a Kraken snapshot: every level is stored
RECURSIVE KrakenSnapshotLadder(_, _)
KrakenSnapshotLadder(l, levels) ==
    IF levels = <<>> THEN l
    ELSE KrakenSnapshotLadder(LadderSet(l, Head(levels)[1], Head(levels)[2]), Tail(levels))

KrakenProcessBookSnapshot(s, snapshot) ==
    KrakenUpdatePricesOrderBook(
        [s EXCEPT !.orderBook = [bids |-> KrakenSnapshotLadder(EmptyLadder, snapshot.bids),
                                 asks |-> KrakenSnapshotLadder(EmptyLadder, snapshot.asks)]])

KrakenProcessBookUpdate(s, d) ==
    IF s.orderBook = NoBook THEN s
    ELSE KrakenUpdatePricesOrderBook(
             [s EXCEPT !.orderBook = [bids |-> ApplyLevels(@.bids, d.b),
                                      asks |-> ApplyLevels(@.asks, d.a)]])

(***************************************************************************)
(* The connector that is followed                                          *)
(***************************************************************************)
initializeOrderBook(s) ==
    CASE ex = "binance" -> BinanceInitializeOrderBook(s)
      [] ex = "backpack" -> BackpackInitializeOrderBook(s)
      [] ex = "kucoin" -> KucoinInitializeOrderBook(s)
      [] ex = "okx" -> OkxInitializeOrderBook(s)

\* onMessage for a book message of the tracked ticker
onMessage(s, d) ==
    CASE ex = "binance" -> BinanceProcessDepthUpdate(s, d)
      [] ex = "backpack" -> BackpackProcessDepthUpdate(s, d)
      [] ex = "kucoin" -> KucoinProcessOrderBookUpdate(s, d)
      [] ex = "okx" -> OkxProcessOrderBookUpdate(s, d)
      [] ex = "bybit" -> BybitProcessOrderBookUpdate(s, d)
      [] ex = "kraken" -> KrakenProcessBookUpdate(s, d)

\* onMessage for a snapshot message of the tracked ticker
onSnapshotMessage(s, snapshot) ==
    IF ex = "kraken" THEN KrakenProcessBookSnapshot(s, snapshot)
    ELSE BybitProcessOrderBookSnapshot(s, snapshot)

\* the continuation of run i when a snapshot response arrives
onSnapshot(s, i, snapshot) ==
    CASE ex = "binance" -> IF s.runs[i].pc = "fetch1" THEN BinanceSnapshot1(s, i, snapshot)
                           ELSE BinanceInstall(s, i, snapshot)
      [] ex = "backpack" -> BackpackInstall(s, i, snapshot)
      [] ex = "kucoin" -> KucoinInstall(s, i, snapshot)
      [] ex = "okx" -> OkxInstall(s, i, snapshot)

onPoll(s, i) == IF ex = "binance" THEN BinancePollResolve(s, i) ELSE BackpackPollResolve(s, i)

Live == ~isInitializing /\ orderBook # NoBook

(***************************************************************************)
(* Sizes are JavaScript numbers.  A size is held as a natural number and   *)
(* a sum is rounded to nearest, ties to even, on a significand of          *)
(* MantissaBits bits as IEEE 754 addition does on 53 bits.                 *)
(***************************************************************************)
MantissaBits == 4

RECURSIVE Pow2(_)
Pow2(n) == IF n = 0 THEN 1 ELSE 2 * Pow2(n - 1)

\* the spacing of the representable numbers around x
RECURSIVE Ulp(_, _)
Ulp(x, unit) == IF x < unit * Pow2(MantissaBits) THEN unit ELSE Ulp(x, 2 * unit)

\* a + b on numbers
FAdd(a, b) ==
    LET x == a + b
        unit == Ulp(x, 1)
        low == x - (x % unit)
    IN  IF 2 * (x % unit) < unit THEN low
        ELSE IF 2 * (x % unit) > unit THEN low + unit
        ELSE IF (low \div unit) % 2 = 0 THEN low ELSE low + unit

(***************************************************************************)
(* page.tsx: the aggregation tick and the source lookup                    *)
(***************************************************************************)
\* Object.values(exchanges) visits the connectors in this order
ExchangeOrder == <<"binance", "bybit", "okx", "kucoin", "backpack">>

RECURSIVE Collect(_, _, _)
Collect(pr, isBid, i) ==
    IF i > Len(ExchangeOrder) THEN <<>>
    ELSE LET tickerData == pr[ExchangeOrder[i]]
         IN  (IF tickerData = NoEntry THEN <<>>
              ELSE IF isBid THEN tickerData.bid ELSE tickerData.ask)
             \o Collect(pr, isBid, i + 1)

\* as SumByPrice, but the size of a price seen again replaces the size so far
RECURSIVE SumByPriceLast(_, _)
SumByPriceLast(priceMap, orders) ==
    IF orders = <<>> THEN priceMap
    ELSE LET order == Head(orders)
         IN  SumByPriceLast(LadderSet(priceMap, order.price, order.size), Tail(orders))

\* priceMap.set(order.price, (priceMap.get(order.price) || 0) + order.size)
RECURSIVE SumByPrice(_, _)
SumByPrice(priceMap, orders) ==
    IF orders = <<>> THEN priceMap
    ELSE LET order == Head(orders)
             currentSize == SizeAt(priceMap, order.price)
         IN  SumByPrice(LadderSet(priceMap, order.price, FAdd(currentSize, order.size)),
                        Tail(orders))

aggregateOrders(orders, isBid) == SortedLevels(SumByPrice(EmptyLadder, orders), isBid)

Aggregated(pr, depth) ==
    [bids |-> Slice(aggregateOrders(Collect(pr, TRUE, 1), TRUE), depth),
     asks |-> Slice(aggregateOrders(Collect(pr, FALSE, 1), FALSE), depth)]

RECURSIVE SumSizes(_)
SumSizes(orders) ==
    IF orders = <<>> THEN 0 ELSE FAdd(SumSizes(SubSeq(orders, 1, Len(orders) - 1)),
                                      orders[Len(orders)].size)

\* a function from the exchanges that have the price to their size at it
getSourcesForPrice(pr, price, isBid) ==
    LET Matching(e) == LET At(o) == o.price = price
                       IN  SelectSeq(IF isBid THEN pr[e].bid ELSE pr[e].ask, At)
        names == {e \in Exchanges : pr[e] # NoEntry /\ Matching(e) # <<>>}
    IN  [e \in names |-> SumSizes(Matching(e))]

(***************************************************************************)
(* Actions                                                                 *)
(***************************************************************************)
\* the most interval timers followed
MaxTimers == 2

\* pingInterval is null and no ping timer runs
NoTimer == [handle |-> 0, active |-> {}]

\* if (this.pingInterval) { clearInterval(this.pingInterval); this.pingInterval = null }
clearPingInterval(p) == [handle |-> 0, active |-> p.active \ {p.handle}]

\* as setupPingInterval, but an existing interval is not cleared first
setupPingIntervalKeepingOld(p) ==
    LET free == (1..MaxTimers) \ p.active
        id == IF free = {} THEN MaxTimers ELSE CHOOSE n \in free : \A o \in free : n <= o
    IN  [handle |-> id, active |-> p.active \cup {id}]

\* setupPingInterval(ws): any existing interval is cleared, then setInterval
\* starts a timer and its handle is kept; the handles followed are capped
setupPingInterval(p) ==
    LET c == clearPingInterval(p)
        free == (1..MaxTimers) \ c.active
        id == IF free = {} THEN MaxTimers ELSE CHOOSE n \in free : \A o \in free : n <= o
    IN  [handle |-> id, active |-> c.active \cup {id}]

\* await Promise.all([...start()]) has resolved
Started == [own |-> "resolved", others |-> "resolved"]

Event(op, m, i) == [op |-> op, m |-> m, i |-> i]

Init ==
    /\ ex \in Followed
    /\ xchg = <<>>
    /\ arrived = 0
    /\ wsState = "connecting"
    /\ isLoading = TRUE
    /\ orderBook = NoBook
    /\ depthBuffer = <<>>
    /\ isInitializing = TRUE
    /\ runs = <<>>
    /\ prices = [e \in Exchanges |-> NoEntry]
    /\ orderbookDepth = DefaultDepth
    /\ aggregatedOrderBook = [bids |-> <<>>, asks |-> <<>>]
    /\ gapOpen = FALSE
    /\ ev = Event("new", 0, 0)
    /\ isClosing = FALSE
    /\ tracked = TRUE
    /\ starts = [own |-> "pending", others |-> "resolved"]
    /\ mounted = TRUE
    /\ superseded = "none"
    /\ pingInterval = NoTimer

\* the exchange changes one level of its book
ExStep(c) ==
    /\ Len(xchg) < MaxSteps
    /\ xchg' = Append(xchg, c)
    /\ ev' = Event("step", 0, 0)
    /\ UNCHANGED <<ex, arrived, wsState, isLoading, orderBook, depthBuffer, isInitializing,
                   runs, prices, orderbookDepth, aggregatedOrderBook, gapOpen>>
    /\ UNCHANGED life

\* subscribe(formattedTickers): onSubscribe calls initializeOrderBook for a
\* tracked ticker, except in Bybit, which waits for the pushed snapshot
subscribe(s) ==
    IF ~tracked \/ ex = "bybit" THEN s
    ELSE IF ex = "kraken" THEN KrakenInitializeOrderBook(s)
    ELSE initializeOrderBook(s)

\* the connectors whose onopen resolves start() even when isClosing is set
ResolvesWhenClosing == {"binance"}

\* a promise settles once
Settle(p, result) == IF p = "pending" THEN result ELSE p

\* ws.onopen: subscribe unless closing, which starts the bootstrap; start()
\* resolves, and when every start() has resolved the page leaves its loading state
OnOpen ==
    /\ wsState = "connecting"
    /\ wsState' = "open"
    /\ LET s == IF isClosing THEN St ELSE subscribe(St)
       IN  /\ Len(s.runs) <= MaxRuns
           /\ Commit(s)
    /\ starts' = IF ~isClosing \/ ex \in ResolvesWhenClosing
                 THEN [starts EXCEPT !.own = Settle(@, "resolved")] ELSE starts
    /\ isLoading' = IF starts' = Started /\ starts # Started THEN FALSE ELSE isLoading
    /\ pingInterval' = IF ex = "kucoin" /\ ~isClosing THEN setupPingInterval(pingInterval)
                       ELSE pingInterval
    /\ ev' = Event("open", 0, 0)
    /\ UNCHANGED <<ex, xchg, arrived, orderbookDepth, aggregatedOrderBook, isClosing, tracked,
                   mounted, superseded>>

\* as Deliver, but the update is processed whether or not its ticker is tracked
DeliverUntracked(k) ==
    /\ wsState = "open"
    /\ k \in (arrived + 1)..Len(xchg)
    /\ LET s == onMessage(St, DepthUpdate(arrived + 1, k))
       IN  /\ Len(s.runs) <= MaxRuns
           /\ Commit(s)
    /\ arrived' = k
    /\ ev' = Event("update", 0, 0)
    /\ UNCHANGED <<ex, xchg, wsState, isLoading, orderbookDepth, aggregatedOrderBook>>
    /\ UNCHANGED life

\* ws.onmessage with the incremental update for markers arrived+1..k; a depth
\* update is processed only if trackingOrderBook has its ticker
Deliver(k) ==
    /\ wsState = "open"
    /\ k \in (arrived + 1)..Len(xchg)
    /\ LET s == IF tracked
                THEN onMessage(St, DepthUpdate(arrived + 1, k)) ELSE St
       IN  /\ Len(s.runs) <= MaxRuns
           /\ Commit(s)
    /\ arrived' = k
    /\ ev' = Event("update", 0, 0)
    /\ UNCHANGED <<ex, xchg, wsState, isLoading, orderbookDepth, aggregatedOrderBook>>
    /\ UNCHANGED life

\* the update for markers arrived+1..k never reaches the connector
Lose(k) ==
    /\ k \in (arrived + 1)..Len(xchg)
    /\ arrived' = k
    /\ ev' = Event("lost", 0, 0)
    /\ UNCHANGED <<ex, xchg, wsState, isLoading, orderBook, depthBuffer, isInitializing,
                   runs, prices, orderbookDepth, aggregatedOrderBook, gapOpen>>
    /\ UNCHANGED life

\* checkBuffer of run i finds the buffer non-empty
Poll(i) ==
    /\ ex \in Buffering
    /\ i \in 1..Len(runs)
    /\ runs[i].pc = "poll"
    /\ depthBuffer # <<>>
    /\ Commit(onPoll(St, i))
    /\ ev' = Event("poll", 0, i)
    /\ UNCHANGED <<ex, xchg, arrived, wsState, isLoading, orderbookDepth, aggregatedOrderBook>>
    /\ UNCHANGED life

\* the snapshot request of run i is answered
SnapshotResponse(i, snapshot) ==
    /\ i \in 1..Len(runs)
    /\ runs[i].pc \in {"fetch1", "fetch2"}
    /\ LET s == onSnapshot(St, i, snapshot)
       IN  /\ Len(s.runs) <= MaxRuns
           /\ Commit(s)
    /\ ev' = Event("snapshot", snapshot.lastUpdateId, i)
    /\ UNCHANGED <<ex, xchg, arrived, wsState, isLoading, orderbookDepth, aggregatedOrderBook>>
    /\ UNCHANGED life

\* the answer is the exchange's book as of some marker m
SnapshotArrives(i, m) ==
    /\ m \in 0..Len(xchg)
    /\ SnapshotResponse(i, Snapshot(m))

\* as FetchFail, but the catch sets no timer
FetchFailGivesUp(i) ==
    /\ i \in 1..Len(runs)
    /\ runs[i].pc \in {"fetch1", "fetch2"}
    /\ runs' = RemoveAt(runs, i)
    /\ ev' = Event("fetchFail", 0, i)
    /\ UNCHANGED <<ex, xchg, arrived, wsState, isLoading, orderBook, depthBuffer,
                   isInitializing, prices, orderbookDepth, aggregatedOrderBook, gapOpen>>
    /\ UNCHANGED life

\* the snapshot request of run i fails: catch, setTimeout(.., 5000)
FetchFail(i) ==
    /\ i \in 1..Len(runs)
    /\ runs[i].pc \in {"fetch1", "fetch2"}
    /\ runs' = [runs EXCEPT ![i] = Run("retry")]
    /\ ev' = Event("fetchFail", 0, i)
    /\ UNCHANGED <<ex, xchg, arrived, wsState, isLoading, orderBook, depthBuffer,
                   isInitializing, prices, orderbookDepth, aggregatedOrderBook, gapOpen>>
    /\ UNCHANGED life

\* the retry timer of run i fires: initializeOrderBook is called again
Retry(i) ==
    /\ i \in 1..Len(runs)
    /\ runs[i].pc = "retry"
    /\ Commit(initializeOrderBook([St EXCEPT !.runs = RemoveAt(@, i)]))
    /\ ev' = Event("retry", 0, i)
    /\ UNCHANGED <<ex, xchg, arrived, wsState, isLoading, orderbookDepth, aggregatedOrderBook>>
    /\ UNCHANGED life

\* the 100 ms interval of the aggregation effect
Tick ==
    /\ mounted
    /\ ~isLoading
    /\ aggregatedOrderBook' = Aggregated(prices, orderbookDepth)
    /\ ev' = Event("tick", 0, 0)
    /\ UNCHANGED <<ex, xchg, arrived, wsState, isLoading, orderBook, depthBuffer,
                   isInitializing, runs, prices, orderbookDepth, gapOpen>>
    /\ UNCHANGED life

Next ==
    \/ \E c \in Changes : ExStep(c)
    \/ OnOpen
    \/ \E k \in 1..MaxSteps : Deliver(k)
    \/ \E k \in 1..MaxSteps : Lose(k)
    \/ \E i \in 1..MaxRuns : Poll(i)
    \/ \E i \in 1..MaxRuns, m \in 0..MaxSteps : SnapshotArrives(i, m)
    \/ \E i \in 1..MaxRuns : FetchFail(i)
    \/ \E i \in 1..MaxRuns : Retry(i)

Spec == Init /\ [][Next]_vars

NextPage ==
    \/ Next
    \/ Tick

SpecPage == Init /\ [][NextPage]_vars

(***************************************************************************)
(* SpecReplay: a Binance or Backpack bootstrap run waits for its snapshot  *)
(* with updates already buffered; the snapshot that arrives may carry any  *)
(* marker around the buffered ranges                                       *)
(***************************************************************************)
MaxBuffered == 2

ReplayPayloads ==
    {[b |-> <<<<100, 0>>>>, a |-> <<>>],
     [b |-> <<<<100, 2>>>>, a |-> <<>>],
     [b |-> <<>>, a |-> <<<<101, 3>>>>]}

ReplayUpdates ==
    {[U |-> r[1], u |-> r[2], b |-> p.b, a |-> p.a] :
        r \in {q \in (498..505) \X (498..505) : q[1] <= q[2]}, p \in ReplayPayloads}

\* the buffered ranges increase; markers between two of them may be missing
ReplayBuffers ==
    UNION {{buf \in [1..n -> ReplayUpdates] : \A j \in 1..(n - 1) : buf[j].u < buf[j + 1].U} :
           n \in 1..MaxBuffered}

ReplaySnapshot(S) ==
    [lastUpdateId |-> S, bids |-> <<<<100, 1>>, <<99, 1>>>>, asks |-> <<<<101, 1>>>>]

InitReplay ==
    /\ ex \in Buffering
    /\ xchg = <<>>
    /\ arrived = 0
    /\ wsState = "open"
    /\ isLoading = FALSE
    /\ orderBook = NoBook
    /\ depthBuffer \in ReplayBuffers
    /\ isInitializing = TRUE
    /\ runs = onPoll([orderBook |-> NoBook, depthBuffer |-> depthBuffer,
                       isInitializing |-> TRUE, runs |-> <<Run("poll")>>,
                       pub |-> NoEntry, gap |-> FALSE], 1).runs
    /\ prices = [e \in Exchanges |-> NoEntry]
    /\ orderbookDepth = DefaultDepth
    /\ aggregatedOrderBook = [bids |-> <<>>, asks |-> <<>>]
    /\ gapOpen = FALSE
    /\ ev = Event("poll", 0, 1)
    /\ isClosing = FALSE
    /\ tracked = TRUE
    /\ starts = Started
    /\ mounted = TRUE
    /\ superseded = "none"
    /\ pingInterval = NoTimer

ReplaySnapshotArrives(i, S) == SnapshotResponse(i, ReplaySnapshot(S))

NextReplay == \E i \in 1..MaxRuns, S \in 497..505 : ReplaySnapshotArrives(i, S)

SpecReplay == InitReplay /\ [][NextReplay]_vars

(***************************************************************************)
(* SpecAgg: two connectors have published views of any shape and depth,    *)
(* the user has picked any depth, and the aggregation interval fires       *)
(***************************************************************************)
AggLevels == 6

\* ladders of size q over a run of neighbouring prices
AggLadders(q) ==
    {[p \in lo..hi |-> q] : lo \in 100..(99 + AggLevels), hi \in 100..(99 + AggLevels)}
    \ {EmptyLadder}

\* the asks mirror the bids ten ticks higher
AggBook(l) ==
    [lastUpdateId |-> 0, bids |-> l,
     asks |-> [p \in {b + 10 : b \in DOMAIN l} |-> l[p - 10]]]

AggView(book) ==
    updatePricesOrderBook([orderBook |-> book, depthBuffer |-> <<>>, isInitializing |-> FALSE,
                           runs |-> <<>>, pub |-> NoEntry, gap |-> FALSE]).pub

InitAgg ==
    /\ ex \in Followed
    /\ xchg = <<>>
    /\ arrived = 0
    /\ wsState = "open"
    /\ isLoading = FALSE
    /\ \E l \in AggLadders(2) : orderBook = AggBook(l)
    /\ depthBuffer = <<>>
    /\ isInitializing = FALSE
    /\ runs = <<>>
    /\ \E e \in Exchanges \ {ex}, v \in {NoEntry} \cup {AggView(AggBook(l)) : l \in AggLadders(3)} :
          prices = [x \in Exchanges |-> IF x = ex THEN AggView(orderBook)
                                        ELSE IF x = e THEN v ELSE NoEntry]
    /\ orderbookDepth \in DepthOptions
    /\ aggregatedOrderBook = [bids |-> <<>>, asks |-> <<>>]
    /\ gapOpen = FALSE
    /\ ev = Event("new", 0, 0)
    /\ isClosing = FALSE
    /\ tracked = TRUE
    /\ starts = Started
    /\ mounted = TRUE
    /\ superseded = "none"
    /\ pingInterval = NoTimer

NextAgg == Tick

SpecAgg == InitAgg /\ [][NextAgg]_vars

(***************************************************************************)
(* SpecMerge: three connectors have published levels at the same prices    *)
(* with sizes whose sums need rounding, and the aggregation interval fires *)
(***************************************************************************)
MergeSizes == {1, Pow2(MantissaBits)}

MergeLadders == UNION {[P -> MergeSizes] : P \in SUBSET {100, 101}}

MergeViews == {NoEntry} \cup {AggView(AggBook(l)) : l \in MergeLadders}

InitMerge ==
    /\ ex = "binance"
    /\ xchg = <<>>
    /\ arrived = 0
    /\ wsState = "open"
    /\ isLoading = FALSE
    /\ \E l \in MergeLadders : orderBook = AggBook(l)
    /\ depthBuffer = <<>>
    /\ isInitializing = FALSE
    /\ runs = <<>>
    /\ \E v2 \in MergeViews, v3 \in MergeViews :
          prices = [x \in Exchanges |-> CASE x = "binance" -> AggView(orderBook)
                                          [] x = "bybit" -> v2
                                          [] x = "okx" -> v3
                                          [] OTHER -> NoEntry]
    /\ orderbookDepth \in DepthOptions
    /\ aggregatedOrderBook = [bids |-> <<>>, asks |-> <<>>]
    /\ gapOpen = FALSE
    /\ ev = Event("new", 0, 0)
    /\ isClosing = FALSE
    /\ tracked = TRUE
    /\ starts = Started
    /\ mounted = TRUE
    /\ superseded = "none"
    /\ pingInterval = NoTimer

NextMerge == Tick

SpecMerge == InitMerge /\ [][NextMerge]_vars

(***************************************************************************)
(* SpecLife: the connector's transport drops and reconnects, the page      *)
(* closes the connector or moves it to another instrument, and the other   *)
(* connectors' start() promises settle, all while the bootstrap and the    *)
(* updates of the followed instrument go on.  Bybit takes part with its    *)
(* transport only.                                                         *)
(***************************************************************************)
Connectors == Followed \cup {"bybit"}

\* what ws.onclose does when the close was not asked for: Binance, Backpack and
\* OKX connect again at once, Kucoin looks its endpoint up first, Bybit sets a
\* 5 s timer
Reconnecting ==
    CASE ex = "kucoin" -> "lookup"
      [] ex = "bybit" -> "waiting"
      [] OTHER -> "connecting"

InitLife ==
    /\ ex \in Connectors
    /\ xchg = <<>>
    /\ arrived = 0
    /\ wsState = IF ex = "kucoin" THEN "lookup" ELSE "connecting"
    /\ isLoading = TRUE
    /\ orderBook = NoBook
    /\ depthBuffer = <<>>
    /\ isInitializing = TRUE
    /\ runs = <<>>
    /\ prices = [e \in Exchanges |-> NoEntry]
    /\ orderbookDepth = DefaultDepth
    /\ aggregatedOrderBook = [bids |-> <<>>, asks |-> <<>>]
    /\ gapOpen = FALSE
    /\ ev = Event("new", 0, 0)
    /\ isClosing = FALSE
    /\ tracked = TRUE
    /\ starts = [own |-> "pending", others |-> "pending"]
    /\ mounted = TRUE
    /\ superseded = "none"
    /\ pingInterval = NoTimer

\* ws.onerror (while connecting, which rejects start()) and ws.onclose with a
\* code other than the one close() sends
Disconnect ==
    /\ wsState \in {"connecting", "open"}
    /\ ~isClosing
    /\ wsState' = Reconnecting
    /\ starts' = IF wsState = "connecting" THEN [starts EXCEPT !.own = Settle(@, "rejected")]
                 ELSE starts
    /\ pingInterval' = IF ex = "kucoin" THEN clearPingInterval(pingInterval) ELSE pingInterval
    /\ ev' = Event("disconnect", 0, 0)
    /\ UNCHANGED <<ex, xchg, arrived, isLoading, orderBook, depthBuffer, isInitializing,
                   runs, prices, orderbookDepth, aggregatedOrderBook, gapOpen, isClosing,
                   tracked, mounted, superseded>>

\* the 5 s timer set by onclose fires: connect() finds the socket closed and
\* makes a new one
ReconnectTimer ==
    /\ wsState = "waiting"
    /\ wsState' = "connecting"
    /\ ev' = Event("reconnect", 0, 0)
    /\ UNCHANGED <<ex, xchg, arrived, isLoading, orderBook, depthBuffer, isInitializing,
                   runs, prices, orderbookDepth, aggregatedOrderBook, gapOpen>>
    /\ UNCHANGED life

\* Kucoin's getEndpoint answers: initializeWebSocket makes the socket
EndpointResponse ==
    /\ wsState = "lookup"
    /\ wsState' = "connecting"
    /\ ev' = Event("endpoint", 0, 0)
    /\ UNCHANGED <<ex, xchg, arrived, isLoading, orderBook, depthBuffer, isInitializing,
                   runs, prices, orderbookDepth, aggregatedOrderBook, gapOpen>>
    /\ UNCHANGED life

\* Kucoin's getEndpoint throws: initializeWebSocket, and with it start(), rejects
EndpointFail ==
    /\ wsState = "lookup"
    /\ wsState' = "closed"
    /\ starts' = [starts EXCEPT !.own = Settle(@, "rejected")]
    /\ ev' = Event("endpointFail", 0, 0)
    /\ UNCHANGED <<ex, xchg, arrived, isLoading, orderBook, depthBuffer, isInitializing,
                   runs, prices, orderbookDepth, aggregatedOrderBook, gapOpen, isClosing,
                   tracked, mounted, superseded, pingInterval>>

\* close(): isClosing = true; ws.close(1000)
Close ==
    /\ ~isClosing
    /\ isClosing' = TRUE
    /\ wsState' = IF wsState \in {"connecting", "open"} THEN "closed" ELSE wsState
    /\ pingInterval' = IF ex = "kucoin" THEN clearPingInterval(pingInterval) ELSE pingInterval
    /\ ev' = Event("close", 0, 0)
    /\ UNCHANGED <<ex, xchg, arrived, isLoading, orderBook, depthBuffer, isInitializing,
                   runs, prices, orderbookDepth, aggregatedOrderBook, gapOpen, tracked, starts,
                   mounted, superseded>>

\* unsubscribeAll(): nothing unless the socket is open; then prices, orderBooks
\* and isInitializing are cleared
unsubscribeAll(s) ==
    IF wsState # "open" THEN s
    ELSE [s EXCEPT !.pub = NoEntry, !.orderBook = NoBook, !.isInitializing = FALSE]

\* The page's effect for a new selectedTicker: the cleanup of the previous
\* effect empties the aggregated book, setIsLoading(true), then
\* changeTickers(new instrument): unsubscribeAll, trackingOrderBook.clear(), and
\* subscribe the new instrument or, the socket not being open, start() again.
\* The new instrument's book and ticks are not followed, nor is Backpack with
\* its socket not open, which awaits start() before it reconfigures.
ChangeTickers ==
    /\ mounted
    /\ ex \in Followed
    /\ ~isClosing
    /\ tracked
    /\ starts = Started
    /\ wsState \in {"open", "connecting", "lookup"}
    /\ ex = "backpack" => wsState = "open"
    /\ Commit(unsubscribeAll(St))
    /\ tracked' = FALSE
    /\ wsState' = IF wsState # "open" /\ ex = "kucoin" THEN "lookup" ELSE wsState
    /\ superseded' = IF wsState # "open" /\ ex = "kucoin" THEN wsState ELSE superseded
    /\ isLoading' = TRUE
    /\ aggregatedOrderBook' = [bids |-> <<>>, asks |-> <<>>]
    /\ ev' = Event("changeTickers", 0, 0)
    /\ UNCHANGED <<ex, xchg, arrived, orderbookDepth, isClosing, starts, mounted,
                   pingInterval>>

\* the start() promises of the other connectors settle
OtherStarts(result) ==
    /\ starts.others = "pending"
    /\ starts' = [starts EXCEPT !.others = result]
    /\ isLoading' = IF starts' = Started THEN FALSE ELSE isLoading
    /\ ev' = Event("otherStarts", 0, 0)
    /\ UNCHANGED <<ex, xchg, arrived, wsState, orderBook, depthBuffer, isInitializing,
                   runs, prices, orderbookDepth, aggregatedOrderBook, gapOpen, isClosing,
                   tracked, mounted, superseded, pingInterval>>

\* the connector's own callbacks, over a book that moves LifeSteps times and
\* whose updates all arrive
NextLife ==
    \/ \E c \in Changes : Len(xchg) < LifeSteps /\ ExStep(c)
    \/ OnOpen
    \/ \E k \in 1..LifeSteps : Deliver(k)
    \/ \E i \in 1..MaxRuns : Poll(i)
    \/ \E i \in 1..MaxRuns, m \in 0..LifeSteps : SnapshotArrives(i, m)
    \/ \E i \in 1..MaxRuns : FetchFail(i)
    \/ \E i \in 1..MaxRuns : Retry(i)
    \/ Tick
    \/ Disconnect
    \/ ReconnectTimer
    \/ EndpointResponse
    \/ EndpointFail
    \/ Close
    \/ ChangeTickers
    \/ \E result \in {"resolved", "rejected"} : OtherStarts(result)

SpecLife == InitLife /\ [][NextLife]_vars

(***************************************************************************)
(* SpecFetch: besides failing or answering with the book, a snapshot       *)
(* request may be answered with a body that has the marker and the level   *)
(* arrays but quantities that are no numbers                               *)
(***************************************************************************)
\* parseFloat of a string that is no number; it stands here as a quantity for
\* which the only test made on it, quantity > 0, is false
NaN == -1

\* the body for marker m with every quantity unparsable
MalformedBody(m) ==
    LET body == Snapshot(m)
    IN  [body EXCEPT !.bids = [j \in DOMAIN @ |-> <<@[j][1], NaN>>],
                     !.asks = [j \in DOMAIN @ |-> <<@[j][1], NaN>>]]

\* the snapshot request of run i is answered with a malformed body
MalformedResponse(i, m) ==
    /\ m \in 0..Len(xchg)
    /\ i \in 1..Len(runs)
    /\ runs[i].pc \in {"fetch1", "fetch2"}
    /\ LET s == onSnapshot(St, i, MalformedBody(m))
       IN  /\ Len(s.runs) <= MaxRuns
           /\ Commit(s)
    /\ ev' = Event("malformed", m, i)
    /\ UNCHANGED <<ex, xchg, arrived, wsState, isLoading, orderbookDepth, aggregatedOrderBook>>
    /\ UNCHANGED life

NextFetch ==
    \/ Next
    \/ \E i \in 1..MaxRuns, m \in 0..MaxSteps : MalformedResponse(i, m)

SpecFetch == Init /\ [][NextFetch]_vars

(***************************************************************************)
(* SpecFair: the connector stays connected and subscribed, every update    *)
(* the exchange sends arrives, and the event loop is fair: a callback or   *)
(* timer that is ready runs (weak fairness), and a snapshot request that   *)
(* is made again and again is answered in the end (strong fairness)        *)
(***************************************************************************)
NextFair ==
    \/ \E c \in Changes : ExStep(c)
    \/ OnOpen
    \/ \E k \in 1..MaxSteps : Deliver(k)
    \/ \E i \in 1..MaxRuns : Poll(i)
    \/ \E i \in 1..MaxRuns, m \in 0..MaxSteps : SnapshotArrives(i, m)
    \/ \E i \in 1..MaxRuns : FetchFail(i)
    \/ \E i \in 1..MaxRuns : Retry(i)

\* In SpecFair at most one bootstrap runs at a time, so that MaxRuns never
\* holds a callback back: an update can be delivered whenever the socket is
\* open and the exchange has sent less than it changed, and a snapshot request
\* can be answered whenever one is in flight.  The two steps are named by what
\* they leave in ev and arrived, which spares evaluating the handlers to tell
\* whether they are enabled.
Delivered ==
    /\ wsState = "open"
    /\ arrived' \in (arrived + 1)..Len(xchg)
    /\ ev' = Event("update", 0, 0)

Answered ==
    \E i \in 1..Len(runs), m \in 0..Len(xchg) :
        /\ runs[i].pc \in {"fetch1", "fetch2"}
        /\ ev' = Event("snapshot", m, i)

Fairness ==
    /\ WF_vars(OnOpen)
    /\ WF_vars(\E c \in Changes : ExStep(c))
    /\ WF_<<ev, arrived>>(Delivered)
    /\ WF_vars(\E i \in 1..MaxRuns : Poll(i))
    /\ WF_vars(\E i \in 1..MaxRuns : Retry(i))
    /\ SF_ev(Answered)

SpecFair == Init /\ [][NextFair]_vars /\ Fairness

(***************************************************************************)
(* SpecPush: any of the six connectors; Bybit and Kraken are sent their    *)
(* snapshot on the push stream, at subscription and possibly again later   *)
(***************************************************************************)
Pushed == {"bybit", "kraken"}

InitPush ==
    /\ ex \in Followed \cup Pushed
    /\ xchg = <<>>
    /\ arrived = 0
    /\ wsState = "connecting"
    /\ isLoading = TRUE
    /\ orderBook = NoBook
    /\ depthBuffer = <<>>
    /\ isInitializing = (ex # "kraken")
    /\ runs = <<>>
    /\ prices = [e \in Exchanges \cup {"kraken"} |-> NoEntry]
    /\ orderbookDepth = DefaultDepth
    /\ aggregatedOrderBook = [bids |-> <<>>, asks |-> <<>>]
    /\ gapOpen = FALSE
    /\ ev = Event("new", 0, 0)
    /\ isClosing = FALSE
    /\ tracked = TRUE
    /\ starts = [own |-> "pending", others |-> "resolved"]
    /\ mounted = TRUE
    /\ superseded = "none"
    /\ pingInterval = NoTimer

\* a snapshot message of the book as of marker k; with z it also lists one
\* bid level whose quantity is 0
SnapshotMessage(k, z) ==
    IF z THEN [Snapshot(k) EXCEPT !.bids = <<<<98, 0>>>> \o @] ELSE Snapshot(k)

\* ws.onmessage with a snapshot message
PushSnapshot(k, z) ==
    /\ ex \in Pushed
    /\ wsState = "open"
    /\ k \in arrived..Len(xchg)
    /\ Commit(IF tracked THEN onSnapshotMessage(St, SnapshotMessage(k, z)) ELSE St)
    /\ arrived' = k
    /\ ev' = Event("pushSnapshot", k, IF z THEN 1 ELSE 0)
    /\ UNCHANGED <<ex, xchg, wsState, isLoading, orderbookDepth, aggregatedOrderBook>>
    /\ UNCHANGED life

NextPush ==
    \/ Next
    \/ \E k \in 0..MaxSteps, z \in BOOLEAN : PushSnapshot(k, z)

SpecPush == InitPush /\ [][NextPush]_vars

(***************************************************************************)
(* SpecClose: SpecLife with the close code that ws.onclose is given        *)
(***************************************************************************)
\* normal closure, abnormal closure, try again later
CloseCodes == {1000, 1006, 1013}

\* the code for which onclose does nothing
SkippedCode == IF ex = "binance" THEN 1000 ELSE 1013

\* ws.onclose of an open socket, with the close code of the event
OnClose(code) ==
    /\ wsState = "open"
    /\ wsState' = IF ~isClosing /\ code # SkippedCode THEN Reconnecting ELSE "closed"
    /\ pingInterval' = IF ex = "kucoin" THEN clearPingInterval(pingInterval) ELSE pingInterval
    /\ ev' = Event("onclose", code, 0)
    /\ UNCHANGED <<ex, xchg, arrived, isLoading, orderBook, depthBuffer, isInitializing,
                   runs, prices, orderbookDepth, aggregatedOrderBook, gapOpen, isClosing,
                   tracked, starts, mounted, superseded>>

NextClose ==
    \/ NextLife
    \/ \E code \in CloseCodes : OnClose(code)

SpecClose == InitLife /\ [][NextClose]_vars

(***************************************************************************)
(* SpecMessage: Spec with push messages that are no well-formed updates    *)
(***************************************************************************)
\* a depth update without its asks field, as the handlers that test
\* `data.a && data.a.length > 0` take it
MissingAsks(d) == [d EXCEPT !.a = <<>>]

\* Binance's applyDepthUpdate for a message without a: data.b.forEach has run
\* when data.a.forEach throws, before lastUpdateId is set and the book published
BinanceApplyDepthUpdateThrowing(s, d) ==
    IF s.orderBook = NoBook THEN s
    ELSE IF d.u <= s.orderBook.lastUpdateId THEN s
    ELSE IF d.U > s.orderBook.lastUpdateId + 1
         THEN BinanceInitializeOrderBook([s EXCEPT !.isInitializing = TRUE, !.gap = TRUE])
    ELSE [s EXCEPT !.orderBook.bids = ApplyLevels(@, d.b)]

onMessageMissingAsks(s, d) ==
    IF ex = "binance" THEN BinanceApplyDepthUpdateThrowing(s, d)
    ELSE onMessage(s, MissingAsks(d))

\* ws.onmessage with the update for markers arrived+1..k, its asks field
\* missing; for Binance the pair is not initializing (the message is not
\* buffered)
MalformedUpdate(k) ==
    /\ wsState = "open"
    /\ k \in (arrived + 1)..Len(xchg)
    /\ ex = "binance" => ~isInitializing
    /\ LET s == IF tracked
                THEN onMessageMissingAsks(St, DepthUpdate(arrived + 1, k)) ELSE St
       IN  /\ Len(s.runs) <= MaxRuns
           /\ Commit(s)
    /\ arrived' = k
    /\ ev' = Event("malformedUpdate", 0, 0)
    /\ UNCHANGED <<ex, xchg, wsState, isLoading, orderbookDepth, aggregatedOrderBook>>
    /\ UNCHANGED life

\* ws.onmessage with a text that JSON.parse rejects: onMessage throws at its
\* first statement
UnparseableMessage ==
    /\ wsState = "open"
    /\ ev.op # "unparseable"
    /\ ev' = Event("unparseable", 0, 0)
    /\ UNCHANGED <<ex, xchg, arrived, wsState, isLoading, orderBook, depthBuffer,
                   isInitializing, runs, prices, orderbookDepth, aggregatedOrderBook, gapOpen>>
    /\ UNCHANGED life

NextMessage ==
    \/ Next
    \/ \E k \in 1..MaxSteps : MalformedUpdate(k)
    \/ UnparseableMessage

SpecMessage == Init /\ [][NextMessage]_vars

(***************************************************************************)
(* SpecResync: the pair of a followed connector is LIVE and in step with   *)
(* the exchange; the markers are counted from that moment                  *)
(***************************************************************************)
InitResync ==
    /\ ex \in Followed
    /\ xchg = <<>>
    /\ arrived = 0
    /\ wsState = "open"
    /\ isLoading = FALSE
    /\ orderBook = SnapshotBook(Snapshot(0))
    /\ depthBuffer = <<>>
    /\ isInitializing = FALSE
    /\ runs = <<>>
    /\ prices = [e \in Exchanges |->
                    IF e = ex
                    THEN updatePricesOrderBook(
                             [orderBook |-> orderBook, depthBuffer |-> <<>>,
                              isInitializing |-> FALSE, runs |-> <<>>, pub |-> NoEntry,
                              gap |-> FALSE]).pub
                    ELSE NoEntry]
    /\ orderbookDepth = DefaultDepth
    /\ aggregatedOrderBook = [bids |-> <<>>, asks |-> <<>>]
    /\ gapOpen = FALSE
    /\ ev = Event("snapshot", 0, 1)
    /\ isClosing = FALSE
    /\ tracked = TRUE
    /\ starts = Started
    /\ mounted = TRUE
    /\ superseded = "none"
    /\ pingInterval = NoTimer

NextResync ==
    \/ \E c \in Changes : ExStep(c)
    \/ \E k \in 1..MaxSteps : Deliver(k)
    \/ \E k \in 1..MaxSteps : Lose(k)
    \/ \E i \in 1..MaxRuns : Poll(i)
    \/ \E i \in 1..MaxRuns, m \in 0..MaxSteps : SnapshotArrives(i, m)
    \/ \E i \in 1..MaxRuns : FetchFail(i)
    \/ \E i \in 1..MaxRuns : Retry(i)

SpecResync == InitResync /\ [][NextResync]_vars

(***************************************************************************)
(* SpecDeep: Binance holds a ladder that may be deeper than orderBookDepth  *)
(* and has published its view, Bybit may have published a shallow one, the *)
(* user has picked any depth, and the aggregation interval fires           *)
(***************************************************************************)
DeepLevels == 26

\* ladders of size q over a run of neighbouring prices
DeepLadders(q) ==
    {[p \in lo..hi |-> q] : lo \in 100..(99 + DeepLevels), hi \in 100..(99 + DeepLevels)}
    \ {EmptyLadder}

\* the asks mirror the bids a hundred ticks higher
DeepBook(l) ==
    [lastUpdateId |-> 0, bids |-> l,
     asks |-> [p \in {b + 100 : b \in DOMAIN l} |-> l[p - 100]]]

InitDeep ==
    /\ ex = "binance"
    /\ xchg = <<>>
    /\ arrived = 0
    /\ wsState = "open"
    /\ isLoading = FALSE
    /\ \E l \in DeepLadders(2) : orderBook = DeepBook(l)
    /\ depthBuffer = <<>>
    /\ isInitializing = FALSE
    /\ runs = <<>>
    /\ \E v \in {NoEntry} \cup {AggView(DeepBook(l)) : l \in AggLadders(3)} :
          prices = [x \in Exchanges |-> IF x = ex THEN AggView(orderBook)
                                        ELSE IF x = "bybit" THEN v ELSE NoEntry]
    /\ orderbookDepth \in DepthOptions
    /\ aggregatedOrderBook = [bids |-> <<>>, asks |-> <<>>]
    /\ gapOpen = FALSE
    /\ ev = Event("new", 0, 0)
    /\ isClosing = FALSE
    /\ tracked = TRUE
    /\ starts = Started
    /\ mounted = TRUE
    /\ superseded = "none"
    /\ pingInterval = NoTimer

NextDeep == Tick

SpecDeep == InitDeep /\ [][NextDeep]_vars

(***************************************************************************)
(* SpecPrice: Spec with the ticker messages that carry the last price      *)
(***************************************************************************)
TickerPrices == {1, 2}

\* currentData.orders, currentData being the entry or the default one
CurrentOrders(entry) ==
    IF entry = NoEntry THEN [bid |-> <<>>, ask |-> <<>>]
    ELSE [f \in DOMAIN entry \ {"price"} |-> entry[f]]

\* ws.onmessage for a result with a price: prices.set(parsedTicker,
\* {price: result.price, .., orders: currentData.orders})
onPriceResult(s, p) == [s EXCEPT !.pub = [price |-> p] @@ CurrentOrders(s.pub)]

\* ws.onmessage with a ticker message of the instrument: onMessage returns its
\* price only if trackingPrice has the ticker, which the page's configurations
\* make the case exactly when trackingOrderBook has it
PriceUpdate(p) ==
    /\ wsState = "open"
    /\ Commit(IF tracked THEN onPriceResult(St, p) ELSE St)
    /\ ev' = Event("price", p, 0)
    /\ UNCHANGED <<ex, xchg, arrived, wsState, isLoading, orderbookDepth, aggregatedOrderBook>>
    /\ UNCHANGED life

NextPrice ==
    \/ Next
    \/ \E p \in TickerPrices : PriceUpdate(p)

SpecPrice == Init /\ [][NextPrice]_vars

(***************************************************************************)
(* SpecUnmount: SpecLife with the page component being unmounted           *)
(***************************************************************************)
\* the exchanges object that the unmount cleanup closes over: the effect has
\* no dependencies, so it is the one of the first render, every connector null
ExchangesAtMount == [e \in Exchanges |-> "null"]

\* React unmounts Home: the cleanup of the initialisation effect empties the
\* aggregated book, the interval is cleared, and the unmount cleanup calls
\* close() on every connector of its exchanges object that is not null
Unmount ==
    /\ mounted
    /\ mounted' = FALSE
    /\ aggregatedOrderBook' = [bids |-> <<>>, asks |-> <<>>]
    /\ IF ExchangesAtMount[ex] # "null"
       THEN /\ isClosing' = TRUE
            /\ wsState' = IF wsState \in {"connecting", "open"} THEN "closed" ELSE wsState
            /\ pingInterval' = IF ex = "kucoin" THEN clearPingInterval(pingInterval)
                               ELSE pingInterval
       ELSE UNCHANGED <<isClosing, wsState, pingInterval>>
    /\ ev' = Event("unmount", 0, 0)
    /\ UNCHANGED <<ex, xchg, arrived, isLoading, orderBook, depthBuffer, isInitializing,
                   runs, prices, orderbookDepth, gapOpen, tracked, starts, superseded>>

NextUnmount ==
    \/ NextLife
    \/ Unmount

SpecUnmount == InitLife /\ [][NextUnmount]_vars

(***************************************************************************)
(* SpecTransport: Kucoin's connector with its sockets and keep-alive timer *)
(***************************************************************************)
\* getEndpoint of the replaced initializeWebSocket call answers: it makes its
\* socket and connect() sets the connector's handlers on it
SupersededEndpoint ==
    /\ superseded = "lookup"
    /\ superseded' = "connecting"
    /\ ev' = Event("supersededEndpoint", 0, 0)
    /\ UNCHANGED <<ex, xchg, arrived, wsState, isLoading, orderBook, depthBuffer,
                   isInitializing, runs, prices, orderbookDepth, aggregatedOrderBook, gapOpen,
                   isClosing, tracked, starts, mounted, pingInterval>>

\* ws.onopen of the replaced socket: unless closing, subscribe, which
\* onSubscribe leaves at once when this.ws is not open, and setupPingInterval
SupersededOpen ==
    /\ superseded = "connecting"
    /\ superseded' = "open"
    /\ LET s == IF ~isClosing /\ wsState = "open" THEN subscribe(St) ELSE St
       IN  /\ Len(s.runs) <= MaxRuns
           /\ Commit(s)
    /\ pingInterval' = IF ~isClosing THEN setupPingInterval(pingInterval) ELSE pingInterval
    /\ ev' = Event("supersededOpen", 0, 0)
    /\ UNCHANGED <<ex, xchg, arrived, wsState, isLoading, orderbookDepth,
                   aggregatedOrderBook, isClosing, tracked, starts, mounted>>

\* ws.onmessage with Kucoin's welcome message, from a socket that is open
Welcome ==
    /\ ex = "kucoin"
    /\ wsState = "open" \/ superseded = "open"
    /\ ev.op # "welcome"
    /\ pingInterval' = setupPingInterval(pingInterval)
    /\ ev' = Event("welcome", 0, 0)
    /\ UNCHANGED <<ex, xchg, arrived, wsState, isLoading, orderBook, depthBuffer,
                   isInitializing, runs, prices, orderbookDepth, aggregatedOrderBook, gapOpen,
                   isClosing, tracked, starts, mounted, superseded>>

\* the interval timer t fires: a ping is sent if its socket is open, else
\* the interval held in pingInterval is cleared
PingTick(t) ==
    /\ ex = "kucoin"
    /\ t \in pingInterval.active
    /\ pingInterval' = IF wsState = "open" THEN pingInterval
                       ELSE clearPingInterval(pingInterval)
    /\ ev' = Event("pingTick", t, 0)
    /\ UNCHANGED <<ex, xchg, arrived, wsState, isLoading, orderBook, depthBuffer,
                   isInitializing, runs, prices, orderbookDepth, aggregatedOrderBook, gapOpen,
                   isClosing, tracked, starts, mounted, superseded>>

\* the Kucoin connector after construction
InitTransport == InitLife /\ ex = "kucoin"

NextTransport ==
    \/ \E c \in Changes : Len(xchg) < LifeSteps /\ ExStep(c)
    \/ OnOpen
    \/ \E k \in 1..LifeSteps : Deliver(k)
    \/ \E i \in 1..MaxRuns, m \in 0..LifeSteps : SnapshotArrives(i, m)
    \/ Disconnect
    \/ EndpointResponse
    \/ EndpointFail
    \/ Close
    \/ ChangeTickers
    \/ \E result \in {"resolved", "rejected"} : OtherStarts(result)
    \/ SupersededEndpoint
    \/ SupersededOpen
    \/ Welcome
    \/ \E t \in 1..MaxTimers : PingTick(t)

SpecTransport == InitTransport /\ [][NextTransport]_vars

(***************************************************************************)
(* SpecUntracked: push messages of an instrument that changeTickers has    *)
(* replaced                                                                *)
(***************************************************************************)
InitUntracked == InitLife /\ ex \in {"binance", "okx", "backpack"}

\* the socket is lost only while no bootstrap is in flight
NextUntracked ==
    \/ \E c \in Changes : Len(xchg) < LifeSteps /\ ExStep(c)
    \/ OnOpen
    \/ \E k \in 1..LifeSteps : Deliver(k)
    \/ \E i \in 1..MaxRuns : Poll(i)
    \/ \E i \in 1..MaxRuns, m \in 0..LifeSteps : SnapshotArrives(i, m)
    \/ runs = <<>> /\ Disconnect
    \/ ChangeTickers
    \/ \E result \in {"resolved", "rejected"} : OtherStarts(result)
    \/ \E p \in TickerPrices : PriceUpdate(p)

SpecUntracked == InitUntracked /\ [][NextUntracked]_vars

(***************************************************************************)
(* Properties                                                              *)
(***************************************************************************)
PriceRange == {99, 100, 101}

Consistent ==
    /\ orderBook.bids = TrueBook(orderBook.lastUpdateId).bids
    /\ orderBook.asks = TrueBook(orderBook.lastUpdateId).asks

\* C1: whenever the pair is LIVE, the local bid and ask ladders are the
\* exchange's true ladders as of the local marker (lastUpdateId), whatever
\* updates arrived during the snapshot fetch or were lost.
C1_LiveBookIsTrueBook == Live => Consistent

\* C2: while the pair is LIVE, a delivered update whose end marker is <= the
\* book's marker leaves the ladders, the marker and the published view unchanged.
C2_StaleUpdateDiscarded ==
    [][(ev'.op = "update" /\ Live /\ arrived' <= orderBook.lastUpdateId)
        => (orderBook' = orderBook /\ prices' = prices)]_vars

\* C3: while the pair is LIVE, a delivered update whose start marker is greater
\* than marker + 1 is not applied to the ladders, sets isInitializing and
\* starts a bootstrap run.
C3_GapForcesResync ==
    [][(ev'.op = "update" /\ Live /\ arrived + 1 > orderBook.lastUpdateId + 1)
        => (/\ orderBook' = orderBook
            /\ isInitializing'
            /\ Len(runs') = Len(runs) + 1)]_vars

Named(levels, p) == \E j \in 1..Len(levels) : levels[j][1] = p

Quantity(levels, p) == levels[CHOOSE j \in 1..Len(levels) : levels[j][1] = p][2]

LevelsSet(old, new, levels) ==
    \A p \in PriceRange :
        IF Named(levels, p)
        THEN IF Quantity(levels, p) = 0 THEN p \notin DOMAIN new
             ELSE p \in DOMAIN new /\ new[p] = Quantity(levels, p)
        ELSE /\ (p \in DOMAIN new) = (p \in DOMAIN old)
             /\ p \in DOMAIN old => new[p] = old[p]

\* C4: when a delivered update is accepted (it changes the book of a LIVE
\* pair), on each side every price it names with size 0 is absent afterwards,
\* every price it names with a size > 0 has exactly that size, every other
\* price is as before, and the marker is the update's end marker.
C4_AcceptedUpdateSetsLevels ==
    [][(ev'.op = "update" /\ Live /\ orderBook' # orderBook)
        => LET d == DepthUpdate(arrived + 1, arrived')
           IN  /\ LevelsSet(orderBook.bids, orderBook'.bids, d.b)
               /\ LevelsSet(orderBook.asks, orderBook'.asks, d.a)
               /\ orderBook'.lastUpdateId = d.u]_vars

\* C4 witness: a LIVE pair has just applied an update that puts back, with a
\* positive size, the level that the marker before it had removed.
C4_Witness ==
    /\ ev.op = "update" /\ Live
    /\ arrived >= 2 /\ orderBook.lastUpdateId = arrived
    /\ xchg[arrived].side = "bid" /\ xchg[arrived - 1].side = "bid"
    /\ xchg[arrived - 1].size = 0 /\ xchg[arrived].size > 0
    /\ 100 \in DOMAIN orderBook.bids /\ orderBook.bids[100] = xchg[arrived].size
    /\ 99 \in DOMAIN orderBook.bids

\* C5: a delivered update never lowers the marker (lastUpdateId) of the book.
C5_MarkerNeverDecreases ==
    [][(ev'.op = "update" /\ orderBook # NoBook)
        => orderBook'.lastUpdateId >= orderBook.lastUpdateId]_vars

\* the buffer that run i replays
ReplayBuffer(i) ==
    IF ex = "binance" /\ ~runs[i].shared THEN runs[i].buffer ELSE depthBuffer

\* C6: when a snapshot with marker S arrives and the first buffered update that
\* ends after S does not satisfy U <= S + 1 <= u, the pair stays SYNCING,
\* nothing is published, no buffered update is applied on the snapshot and a
\* bootstrap run stays in flight.
C6_LiveOnlyAfterValidFirstUpdate ==
    [][(/\ ev'.op = "snapshot"
        /\ ex \in Buffering
        /\ After(ReplayBuffer(ev'.i), ev'.m) # <<>>
        /\ ~FirstValid(After(ReplayBuffer(ev'.i), ev'.m)[1], ev'.m))
        => (/\ isInitializing'
            /\ prices' = prices
            /\ orderBook' # orderBook => orderBook'.lastUpdateId = ev'.m
            /\ runs' # <<>>)]_vars

\* the buffered updates that end after marker S
Remaining(buffer, S) == LET Ends(e) == e.u > S IN SelectSeq(buffer, Ends)

\* the first update straddles S + 1 and every next one starts right after the
\* one before it
Contiguous(events, S) ==
    /\ events[1].U <= S + 1 /\ S + 1 <= events[1].u
    /\ \A j \in 1..(Len(events) - 1) : events[j + 1].U = events[j].u + 1

RECURSIVE ReplayedBook(_, _)
ReplayedBook(book, events) ==
    IF events = <<>> THEN book
    ELSE ReplayedBook([lastUpdateId |-> Head(events).u,
                       bids |-> ApplyLevels(book.bids, Head(events).b),
                       asks |-> ApplyLevels(book.asks, Head(events).a)], Tail(events))

\* a snapshot response that puts a book in place
Installs == ev'.op = "snapshot" /\ orderBook' # orderBook

\* C7 (as stated): on installing a snapshot with marker S, the book is the
\* snapshot with every buffered update that ends after S applied in arrival
\* order, and its marker is the end marker of the last buffered update.
C7_FinalMarkerIsLastBuffered ==
    [][Installs =>
        LET buffer == ReplayBuffer(ev'.i)
        IN  /\ orderBook' = ReplayedBook(SnapshotBook(ReplaySnapshot(ev'.m)),
                                         Remaining(buffer, ev'.m))
            /\ orderBook'.lastUpdateId = buffer[Len(buffer)].u]_vars

\* C7 (amended): on installing a snapshot with marker S, no buffered update
\* that ends at or before S is applied; when no buffered update ends after S
\* the book is the snapshot and the marker is S; when the updates that end
\* after S are contiguous from S + 1, the book is the snapshot with all of them
\* applied in arrival order and the marker is the end of the last buffered one.
C7_ContiguousReplay ==
    [][Installs =>
        LET buffer == ReplayBuffer(ev'.i)
            rest == Remaining(buffer, ev'.m)
            book == SnapshotBook(ReplaySnapshot(ev'.m))
        IN  /\ orderBook'.lastUpdateId \in {ev'.m} \cup {rest[j].u : j \in 1..Len(rest)}
            /\ rest = <<>> => orderBook' = book
            /\ (rest # <<>> /\ Contiguous(rest, ev'.m))
                  => /\ orderBook' = ReplayedBook(book, rest)
                     /\ orderBook'.lastUpdateId = buffer[Len(buffer)].u
                     /\ ~isInitializing']_vars

\* C7 witness: snapshot 500 was installed over the buffered ranges [498,501]
\* and [502,505], the second of which changed the book, and the marker is 505.
C7_Witness ==
    /\ ev = Event("snapshot", 500, 1)
    /\ Live
    /\ orderBook = [lastUpdateId |-> 505, bids |-> (99 :> 1), asks |-> (101 :> 1)]

\* C8: once a gap has been detected, the pair is not LIVE before a snapshot
\* that arrived after the detection has been installed.
C8_NoLiveWhileGapOpen == gapOpen => isInitializing

\* what the connectors that are LIVE have published
LivePrices == [e \in Exchanges |-> IF e = ex /\ Live THEN prices[e] ELSE NoEntry]

\* C9: the book produced by an aggregation tick holds the levels of the LIVE
\* pairs only, and getSources names no exchange whose pair is not LIVE.
C9_NonLiveContributesNothing ==
    ev.op = "tick" =>
        /\ aggregatedOrderBook = Aggregated(LivePrices, orderbookDepth)
        /\ \A p \in PriceRange, isBid \in BOOLEAN :
              getSourcesForPrice(prices, p, isBid) = getSourcesForPrice(LivePrices, p, isBid)

\* the levels one connector has published for one side
View(e, isBid) ==
    IF prices[e] = NoEntry THEN <<>> ELSE IF isBid THEN prices[e].bid ELSE prices[e].ask

Has(levels, p) == \E j \in 1..Len(levels) : levels[j].price = p

SizeIn(levels, p) ==
    IF Has(levels, p) THEN levels[CHOOSE j \in 1..Len(levels) : levels[j].price = p].size
    ELSE 0

\* the distinct prices the connectors have published for one side
Present(isBid) == {p \in 99..(120 + AggLevels) : \E e \in Exchanges : Has(View(e, isBid), p)}

SummedSize(p, isBid) ==
    SizeIn(View("binance", isBid), p) + SizeIn(View("bybit", isBid), p)
    + SizeIn(View("okx", isBid), p) + SizeIn(View("kucoin", isBid), p)
    + SizeIn(View("backpack", isBid), p)

Side(isBid) == IF isBid THEN aggregatedOrderBook.bids ELSE aggregatedOrderBook.asks

\* every level is the sum of the published sizes at its price, and the sources
\* of its price are the connectors that published it, with their sizes
LevelsAreSums(isBid) ==
    \A j \in 1..Len(Side(isBid)) :
        LET p == Side(isBid)[j].price
        IN  /\ p \in Present(isBid)
            /\ Side(isBid)[j].size = SummedSize(p, isBid)
            /\ \A k \in 1..Len(Side(isBid)) : Side(isBid)[k].price = p => k = j
            /\ getSourcesForPrice(prices, p, isBid)
                 = [e \in {x \in Exchanges : Has(View(x, isBid), p)} |->
                        SizeIn(View(e, isBid), p)]

C11_SortedAndTruncated ==
    ev.op = "tick" =>
        /\ \A j, k \in 1..Len(aggregatedOrderBook.bids) :
              j < k => aggregatedOrderBook.bids[j].price > aggregatedOrderBook.bids[k].price
        /\ \A j, k \in 1..Len(aggregatedOrderBook.asks) :
              j < k => aggregatedOrderBook.asks[j].price < aggregatedOrderBook.asks[k].price
        /\ Len(aggregatedOrderBook.bids) <= orderbookDepth
        /\ Len(aggregatedOrderBook.asks) <= orderbookDepth

\* C11 witness: two connectors published more distinct prices than the picked
\* depth and the tick kept exactly orderbookDepth levels on each side.
C11_Witness ==
    /\ ev.op = "tick"
    /\ Cardinality(Present(TRUE)) > orderbookDepth
    /\ Cardinality(Present(FALSE)) > orderbookDepth
    /\ Len(aggregatedOrderBook.bids) = orderbookDepth
    /\ Len(aggregatedOrderBook.asks) = orderbookDepth
    /\ Cardinality({e \in Exchanges : prices[e] # NoEntry}) = 2

\* the published views handed to the connectors in another order
Permuted(f) == [e \in Exchanges |-> prices[f[e]]]

\* C12: the book a tick produces is the same (prices, sizes and order) for
\* every permutation of the exchanges the published views are merged in.
C12_OrderIndependent ==
    ev.op = "tick" =>
        \A f \in Permutations(Exchanges) :
            Aggregated(Permuted(f), orderbookDepth) = aggregatedOrderBook

RECURSIVE SourcesTotal(_)
SourcesTotal(sources) ==
    IF DOMAIN sources = {} THEN 0
    ELSE LET e == CHOOSE x \in DOMAIN sources : TRUE
         IN  sources[e] + SourcesTotal([x \in DOMAIN sources \ {e} |-> sources[x]])

\* C13: at any moment, for every level of the aggregated book the last tick
\* produced, the sizes getSourcesForPrice returns for its price and side add
\* up to the level's size.
C13_SourcesSumToLevel ==
    /\ \A j \in 1..Len(aggregatedOrderBook.bids) :
          SourcesTotal(getSourcesForPrice(prices, aggregatedOrderBook.bids[j].price, TRUE))
            = aggregatedOrderBook.bids[j].size
    /\ \A j \in 1..Len(aggregatedOrderBook.asks) :
          SourcesTotal(getSourcesForPrice(prices, aggregatedOrderBook.asks[j].price, FALSE))
            = aggregatedOrderBook.asks[j].size

\* C14: once close() has been called the connector opens no new transport
\* connection, a reconnect scheduled by an earlier disconnect included: no
\* step taken with isClosing set brings the transport to "connecting".
C14_NoTransportAfterClose ==
    [][isClosing => ~(wsState' = "connecting" /\ wsState # "connecting")]_vars

InFlight(rs, pcs) == Cardinality({i \in 1..Len(rs) : rs[i].pc \in pcs})

\* C15: when close() is called while the pair is SYNCING, from then on no
\* bootstrap poll and no retry timer is pending and no snapshot fetch is issued.
C15_CloseStopsBootstrap ==
    [][isClosing' =>
           /\ InFlight(runs', {"poll", "retry"}) = 0
           /\ isClosing => /\ InFlight(runs', {"fetch1"}) <= InFlight(runs, {"fetch1"})
                           /\ InFlight(runs', {"fetch2"}) <= InFlight(runs, {"fetch2"})]_vars

\* C16: right after changeTickers has reconfigured the connector, whatever the
\* socket's ready state was, nothing of the previous instrument is held: no
\* order book, no published entry, no isInitializing flag, no buffered update.
C16_ChangeTickersClearsOldState ==
    ev.op = "changeTickers" =>
        /\ orderBook = NoBook
        /\ prices[ex] = NoEntry
        /\ ~isInitializing
        /\ depthBuffer = <<>>

\* C17: after changeTickers, a bootstrap of the previous instrument that was in
\* flight installs no order book, publishes no levels and does not mark the
\* pair LIVE: no later step changes the previous instrument's book or
\* published entry or lowers its isInitializing flag.
C17_OldBootstrapAbandoned ==
    [][~tracked => /\ orderBook' = orderBook
                   /\ prices'[ex] = prices[ex]
                   /\ isInitializing => isInitializing']_vars

\* C19: a snapshot fetch that fails, by a network error or by a malformed body,
\* installs and publishes nothing: the book and the published entry are as
\* before the response and a pair that was SYNCING still is.
C19_FailedFetchInstallsNothing ==
    [][ev'.op \in {"fetchFail", "malformed"} =>
           /\ orderBook' = orderBook
           /\ prices'[ex] = prices[ex]
           /\ isInitializing => isInitializing']_vars

\* C20: a failure confined to one exchange does not stop aggregation: when
\* another connector's start() was rejected while this connector started and
\* has its pair LIVE, the page is out of its loading state, so that the
\* aggregation interval runs.
C20_FailureDoesNotStopAggregation ==
    (starts.others = "rejected" /\ starts.own = "resolved" /\ Live) => ~isLoading

\* the exchange has sent every update it will send and a bootstrap of a
\* buffering connector waits for its first update
UpdatesEnded == ex \in Buffering /\ arrived = MaxSteps /\ InFlight(runs, {"poll"}) > 0

\* C18: a failed snapshot fetch leaves the pair SYNCING with a retry timer
\* pending, whatever the number of earlier attempts, and under fairness a
\* SYNCING pair becomes LIVE unless the updates stop arriving.
C18_RetriesUntilLive ==
    /\ [][ev'.op = "fetchFail" => isInitializing' /\ InFlight(runs', {"retry"}) > 0]_vars
    /\ isInitializing ~> (Live \/ UpdatesEnded)

C18_Witness == ev.op = "retry" /\ isInitializing /\ InFlight(runs, {"fetch1", "poll"}) > 0

\* the value the spec's getBook gives while there is no book
Null == [absent |-> TRUE]

LadderPositive(l) == \A p \in DOMAIN l : l[p] > 0

LevelsPositive(levels) == \A i \in 1..Len(levels) : levels[i].size > 0

C22_SizesPositive ==
    /\ orderBook # NoBook => LadderPositive(orderBook.bids) /\ LadderPositive(orderBook.asks)
    /\ \A e \in DOMAIN prices :
           prices[e] # NoEntry => LevelsPositive(prices[e].bid) /\ LevelsPositive(prices[e].ask)

\* the same for every connector but Kraken
C22_SizesPositiveButKraken == ex # "kraken" => C22_SizesPositive

\* C23: when an incremental update is delivered to a LIVE pair that stays
\* LIVE, delivering the same update once more leaves the ladders, the marker
\* and the rest of the connector's state as the first delivery left them
C23_RedeliveryIsNoOp ==
    [][(ev'.op = "update" /\ tracked /\ Live /\ Live')
       => onMessage(St', DepthUpdate(arrived + 1, arrived')) = St']_vars

\* a Kucoin update (never skipped as stale) was applied to a LIVE book
C23_Witness ==
    /\ ex = "kucoin" /\ ev.op = "update" /\ tracked /\ Live
    /\ arrived > 0 /\ orderBook.lastUpdateId = arrived
    /\ orderBook.bids # InitBook.bids

\* C24: when the transport of a connector that was not closed with close()
\* closes, whatever the close code, a reconnection is under way afterwards
\* (the endpoint lookup, the 5 s timer or a new socket)
C24_ReconnectsAfterAnyClose ==
    [][(ev'.op = "onclose" /\ ~isClosing) => wsState' \in {"lookup", "waiting", "connecting"}]_vars

\* once a socket is closed with no reconnection under way, nothing opens one
C24_ClosedStaysClosed == [][wsState = "closed" => wsState' = "closed"]_vars

C26_MalformedMessageDropped ==
    [][ev'.op \in {"malformedUpdate", "unparseable"}
       => /\ orderBook' = orderBook
          /\ prices' = prices
          /\ isInitializing' = isInitializing]_vars

\* the part that holds: an unparseable text changes nothing
C26_UnparseableDropped ==
    [][ev'.op = "unparseable"
       => /\ orderBook' = orderBook
          /\ prices' = prices
          /\ isInitializing' = isInitializing]_vars

\* the number of bootstrap runs that have requested their snapshot
Fetching(rs) == Cardinality({i \in 1..Len(rs) : rs[i].pc = "fetch1"})

\* C27: a snapshot is requested only when an incremental update of the pair
\* has been received and is in its buffer
C27_NoFetchBeforeFirstUpdate ==
    [][Fetching(runs') > Fetching(runs) => depthBuffer # <<>>]_vars

\* the same for the connectors that buffer (Binance, Backpack)
C27_BufferingConnectorsWait ==
    [][(ex \in Buffering /\ Fetching(runs') > Fetching(runs)) => depthBuffer # <<>>]_vars

\* C28: the step that detects a gap leaves the pair's update buffer empty,
\* and while the pair resynchronises after a gap, its snapshot fetch failing
\* or not, no order book is stored and none is published for it
C28_ClearedOnResync ==
    /\ []((gapOpen /\ isInitializing) => orderBook = NoBook /\ prices[ex] = NoEntry)
    /\ [][(gapOpen' /\ ~gapOpen) => depthBuffer' = <<>>]_vars

\* the part that holds: the buffer is emptied when the gap is detected
C28_BufferCleared == [][(gapOpen' /\ ~gapOpen) => depthBuffer' = <<>>]_vars

\* the ladder l holds the levels of a snapshot message and no other
HoldsLevels(l, levels) ==
    /\ \A p \in DOMAIN l : \E i \in 1..Len(levels) : levels[i] = <<p, l[p]>>
    /\ \A i \in 1..Len(levels) : levels[i][2] > 0 => levels[i][1] \in DOMAIN l

PushProtocol ==
    /\ (~Live /\ Live') => ev'.op = "pushSnapshot"
    /\ (prices[ex] = NoEntry /\ prices'[ex] # NoEntry) => ev'.op = "pushSnapshot"
    /\ (ev'.op = "update" /\ prices[ex] = NoEntry) => orderBook' = orderBook
    /\ (ev'.op = "pushSnapshot" /\ tracked)
           => /\ Live'
              /\ HoldsLevels(orderBook'.bids, SnapshotMessage(ev'.m, ev'.i = 1).bids)
              /\ HoldsLevels(orderBook'.asks, SnapshotMessage(ev'.m, ev'.i = 1).asks)

\* C29: a Bybit or Kraken pair becomes LIVE, and its book is first published,
\* only in a step that receives a snapshot message; that step leaves in the
\* ladders the levels of the snapshot and no other; and an update received
\* before any book was published changes no book
C29_LiveOnSnapshotOnly == [][(ex \in Pushed) => PushProtocol]_vars

\* the same for Bybit alone
C29_BybitLiveOnSnapshotOnly == [][(ex = "bybit") => PushProtocol]_vars

\* the update part for Kraken alone: an update received before any book was
\* published publishes none (violated: the update is applied to the empty book
\* stored at subscription and published)
C29_KrakenUpdateWaitsForSnapshot ==
    [][(ex = "kraken" /\ ev'.op = "update" /\ prices[ex] = NoEntry)
       => prices'[ex] = NoEntry]_vars

StrictlyDescending(levels) == \A i \in 1..(Len(levels) - 1) : levels[i].price > levels[i + 1].price

StrictlyAscending(levels) == \A i \in 1..(Len(levels) - 1) : levels[i].price < levels[i + 1].price

\* the levels are the n best of the ladder l, n being the lesser of depth and
\* the number of levels in l
BestOf(levels, l, isBid, depth) ==
    /\ Len(levels) = (IF Cardinality(DOMAIN l) < depth THEN Cardinality(DOMAIN l) ELSE depth)
    /\ \A i \in 1..Len(levels) : levels[i].price \in DOMAIN l /\ levels[i].size = l[levels[i].price]
    /\ \A p \in DOMAIN l : (\A i \in 1..Len(levels) : levels[i].price # p)
           => \A i \in 1..Len(levels) : IF isBid THEN levels[i].price > p ELSE levels[i].price < p

PublishedDepth == IF ex = "kraken" THEN KrakenDepth ELSE OrderBookDepth

\* C30: in every state the published view of the connector has its bids in
\* strictly descending and its asks in strictly ascending price order (hence
\* no price twice on a side), at most orderBookDepth levels a side, and these
\* are the best-priced levels of the ladders the connector holds
C30_PublishedViewIsBestOfLadder ==
    prices[ex] # NoEntry
        => /\ StrictlyDescending(prices[ex].bid) /\ StrictlyAscending(prices[ex].ask)
           /\ Len(prices[ex].bid) <= PublishedDepth /\ Len(prices[ex].ask) <= PublishedDepth
           /\ orderBook # NoBook
           /\ BestOf(prices[ex].bid, orderBook.bids, TRUE, PublishedDepth)
           /\ BestOf(prices[ex].ask, orderBook.asks, FALSE, PublishedDepth)

\* the ordering and size part of C30
C30_OrderedAndBounded ==
    prices[ex] # NoEntry
        => /\ StrictlyDescending(prices[ex].bid) /\ StrictlyAscending(prices[ex].ask)
           /\ Len(prices[ex].bid) <= PublishedDepth /\ Len(prices[ex].ask) <= PublishedDepth

\* a snapshot with marker S answers the first request of run i, and S is older
\* than the start of the earliest update in the run's buffer
StaleFirstSnapshot ==
    /\ ev'.op = "snapshot"
    /\ ev'.i \in 1..Len(runs)
    /\ runs[ev'.i].pc = "fetch1"
    /\ ReplayBuffer(ev'.i) # <<>>
    /\ ev'.m < ReplayBuffer(ev'.i)[1].U

\* a snapshot with marker S makes the pair LIVE and buffered updates are
\* replayed on it
LiveOnReplay ==
    /\ ev'.op = "snapshot"
    /\ ev'.i \in 1..Len(runs)
    /\ ~isInitializing'
    /\ After(ReplayBuffer(ev'.i), ev'.m) # <<>>

SnapshotRule ==
    /\ StaleFirstSnapshot
           => /\ isInitializing' /\ orderBook' = orderBook /\ prices' = prices
              /\ \E j \in 1..Len(runs') : runs'[j].pc = "fetch2"
    /\ LiveOnReplay => ev'.m + 1 >= After(ReplayBuffer(ev'.i), ev'.m)[1].U

\* C31: a first snapshot older than the earliest buffered update is not
\* installed, a second one is requested; and no pair becomes LIVE on a
\* snapshot with marker S when the earliest update replayed on it starts
\* after S + 1
C31_StaleSnapshotRefetched == [][(ex \in Buffering) => SnapshotRule]_vars

\* the same for Binance alone
C31_BinanceStaleSnapshotRefetched == [][(ex = "binance") => SnapshotRule]_vars

\* the published entries, with the complete ladders of the followed connector
\* in place of its best orderBookDepth levels (the other published views are
\* complete: they are shallower than orderBookDepth)
CompletePrices ==
    [prices EXCEPT ![ex] = [@ EXCEPT !.bid = SortedLevels(orderBook.bids, TRUE),
                                     !.ask = SortedLevels(orderBook.asks, FALSE)]]

\* C32: after a tick, for the depth picked, the aggregated levels are the best
\* orderbookDepth levels of the merge of the complete ladders of the
\* contributing exchanges
C32_TopDepthOfCompleteLadders ==
    ev.op = "tick" => aggregatedOrderBook = Aggregated(CompletePrices, orderbookDepth)

\* the same for the depths that do not exceed the connectors' orderBookDepth
C32_TopDepthUpToPublishedDepth ==
    (ev.op = "tick" /\ orderbookDepth <= OrderBookDepth)
        => aggregatedOrderBook = Aggregated(CompletePrices, orderbookDepth)

\* the levels an entry publishes on a side
PublishedLevels(entry, isBid) ==
    IF entry = NoEntry THEN <<>> ELSE IF isBid THEN entry.bid ELSE entry.ask

\* C33: a price message changes the tracked price only: the ladders, the
\* marker, the update buffer, the sync state and the published bids and asks
\* stay as they were; and a step that installs a snapshot or handles an
\* incremental update leaves the tracked price as it was
C33_PriceAndBookApart ==
    [][/\ ev'.op = "price"
           => /\ CurrentPrice(prices'[ex]) = ev'.m
              /\ orderBook' = orderBook /\ depthBuffer' = depthBuffer
              /\ isInitializing' = isInitializing /\ runs' = runs
              /\ \A isBid \in BOOLEAN :
                     PublishedLevels(prices'[ex], isBid) = PublishedLevels(prices[ex], isBid)
       /\ ev'.op \in {"snapshot", "update"}
           => CurrentPrice(prices'[ex]) = CurrentPrice(prices[ex])]_vars

\* an incremental update was applied to, and published from, a LIVE book whose
\* entry holds a price
C33_Witness ==
    /\ ev.op = "update" /\ ex = "kucoin" /\ Live
    /\ arrived > 0 /\ orderBook.lastUpdateId = arrived
    /\ prices[ex].lastUpdateId = arrived
    /\ prices[ex].price = 2

\* C34: when the page component unmounts after the session has created and
\* started its connectors, close() has been called on the connector
C34_UnmountClosesConnectors ==
    [][(ev'.op = "unmount" /\ starts = Started) => isClosing']_vars

\* a reachable state: the component is unmounted and the socket of the started
\* connector is open, close() not having been called
C34_OpenAfterUnmount == ~mounted /\ ~isClosing /\ wsState = "open" /\ starts = Started

\* C35: at most one initializeOrderBook run of the pair is in flight (polling
\* for a first update, awaiting a snapshot or waiting on its retry timer)
C35_OneBootstrapRun == Len(runs) <= 1

\* C36: the connector never has two open sockets that carry its handlers
C36_OneConnection == ~(wsState = "open" /\ superseded = "open")

\* C39: Kucoin never has more than one keep-alive interval timer running, and
\* a tick of the timer changes no ladder, buffer, sync flag, bootstrap run or
\* published entry
C39_OnePingTimer ==
    /\ [](Cardinality(pingInterval.active) <= 1)
    /\ [][(ev'.op = "pingTick") =>
            UNCHANGED <<orderBook, depthBuffer, isInitializing, runs, prices, gapOpen>>]_vars

\* a reachable state: the timer ticks, alone, after the replaced socket and the
\* current one have both opened and set it up
C39_Witness ==
    /\ ev.op = "pingTick"
    /\ Cardinality(pingInterval.active) = 1
    /\ wsState = "open"
    /\ superseded = "open"

C38_UntrackedMessageIgnored ==
    [][(~tracked /\ ev'.op \in {"update", "price"})
          => UNCHANGED <<orderBook, depthBuffer, prices>>]_vars

\* a reachable state: a book message of the replaced instrument has arrived
\* while the connector still holds that instrument's ladder and published entry
C38_Witness ==
    /\ ~tracked /\ ev.op = "update" /\ wsState = "open"
    /\ orderBook # NoBook /\ prices[ex] # NoEntry

\* a reachable state: a price message of the replaced instrument has arrived
\* while the connector still holds that instrument's published entry
C38_UntrackedPrice == ~tracked /\ ev.op = "price" /\ prices[ex] # NoEntry

====
